---------------------------- MODULE Spec2Model ----------------------------
(***************************************************************************)
(* Model of SCRIPT-LIBELLE.py: the label normalisation pipeline of         *)
(* TraitementLibelles (sanitisation, brand detection, the six-rule         *)
(* quantity cascade, product-name reduction, assembly) and the batch loop  *)
(* of traiter_articles.                                                    *)
(*                                                                         *)
(* A string is a sequence of characters; a character is a one-letter       *)
(* string for ASCII and a code-point name ("U+00E9") otherwise.  Positions *)
(* are 1-based; a regular-expression position p between two characters is *)
(* the number of characters before it (0 .. Len(s)).                       *)
(***************************************************************************)
EXTENDS Integers, Sequences, FiniteSets, TLC

VARIABLES
    articles,           \* traiter_articles: the input list of labels
    idx,                \* traiter_articles: index of the article of the for loop
    resultats,          \* traiter_articles: the list of (original, traite) pairs
    pc,                 \* position in traiter_articles / traiter_libelle
    libelle,            \* traiter_libelle: libelle_original (article_nettoye)
    nettoye,            \* traiter_libelle: sanitized text
    marque,             \* traiter_libelle: detected brand, Aucune for None
    grammages_volumes,  \* traiter_libelle: extracted quantity tokens
    nom_produit,        \* traiter_libelle: product name being reduced
    k,                  \* traiter_libelle: index of gv in the removal loop
    libelle_final       \* traiter_libelle: the returned label

vars == <<articles, idx, resultats, pc, libelle, nettoye, marque,
          grammages_volumes, nom_produit, k, libelle_final>>

\* Python's None
Aucune == <<"None">>

-----------------------------------------------------------------------------
(* Characters *)

Chiffres == {"0", "1", "2", "3", "4", "5", "6", "7", "8", "9"}

Minuscules == <<"a", "b", "c", "d", "e", "f", "g", "h", "i", "j", "k", "l", "m",
                "n", "o", "p", "q", "r", "s", "t", "u", "v", "w", "x", "y", "z">>

Majuscules == <<"A", "B", "C", "D", "E", "F", "G", "H", "I", "J", "K", "L", "M",
                "N", "O", "P", "Q", "R", "S", "T", "U", "V", "W", "X", "Y", "Z">>

LettresMin == {Minuscules[i] : i \in DOMAIN Minuscules}

LettresMaj == {Majuscules[i] : i \in DOMAIN Majuscules}

LettresAscii == LettresMin \cup LettresMaj

\* Non-ASCII letters of the model: e-acute, E-acute (they decompose under NFD)
\* and the ligature oe (it does not).
LettresAutres == {"U+00E9", "U+00C9", "U+0153"}

\* unicodedata.category(c) == 'Mn': the combining acute accent
MarquesDiacritiques == {"U+0301"}

\* what \s matches and str.strip() strips: space, tab, no-break space
Blancs == {" ", "TAB", "U+00A0"}

\* what \w matches (the two sides of \b)
IsWord(c) == c \in LettresAscii \cup Chiffres \cup LettresAutres \cup {"_"}

\* str.upper(), one character
MajusculeDe ==
    [c \in LettresMin |-> Majuscules[CHOOSE i \in DOMAIN Minuscules : Minuscules[i] = c]]

UpperChar(c) ==
    IF c \in LettresMin THEN MajusculeDe[c]
    ELSE IF c = "U+00E9" THEN "U+00C9"
    ELSE c

Upper(s) == [i \in DOMAIN s |-> UpperChar(s[i])]

-----------------------------------------------------------------------------
(* Generic string helpers *)

RECURSIVE Flatten(_)
Flatten(ss) == IF ss = <<>> THEN <<>> ELSE Head(ss) \o Flatten(Tail(ss))

\* s[a..b], empty when a > b
Slice(s, a, b) == SubSeq(s, a, b)

\* the first position >= i whose character is not in set S (Len(s)+1 if none)
RECURSIVE SkipWhile(_, _, _)
SkipWhile(s, i, S) ==
    IF i <= Len(s) /\ s[i] \in S THEN SkipWhile(s, i + 1, S) ELSE i

\* s has the literal lit at positions i .. i+Len(lit)-1
HasAt(s, i, lit) ==
    /\ i >= 1
    /\ i + Len(lit) - 1 <= Len(s)
    /\ \A j \in 1..Len(lit) : s[i + j - 1] = lit[j]

\* \b at position p (0 .. Len(s)): exactly one side is a word character
WordBoundary(s, p) ==
    LET avant == p >= 1 /\ IsWord(s[p])
        apres == p < Len(s) /\ IsWord(s[p + 1])
    IN  avant # apres

\* re.sub(r'\s+', ' ', s): every run of whitespace becomes one space
RECURSIVE CollapseFrom(_, _)
CollapseFrom(s, i) ==
    IF i > Len(s) THEN <<>>
    ELSE IF s[i] \in Blancs
         THEN <<" ">> \o CollapseFrom(s, SkipWhile(s, i, Blancs))
         ELSE <<s[i]>> \o CollapseFrom(s, i + 1)

CollapseSpaces(s) == CollapseFrom(s, 1)

\* str.strip()
RECURSIVE LastNonBlank(_, _)
LastNonBlank(s, j) ==
    IF j >= 1 /\ s[j] \in Blancs THEN LastNonBlank(s, j - 1) ELSE j

Strip(s) == Slice(s, SkipWhile(s, 1, Blancs), LastNonBlank(s, Len(s)))

-----------------------------------------------------------------------------
(* supprimer_accents_et_caracteres_speciaux *)

\* unicodedata.normalize('NFD', .), one character
NFDChar(c) ==
    IF c = "U+00E9" THEN <<"e", "U+0301">>
    ELSE IF c = "U+00C9" THEN <<"E", "U+0301">>
    ELSE <<c>>

NFD(s) == Flatten([i \in DOMAIN s |-> NFDChar(s[i])])

\* the class [A-Za-z0-9\s,./X+-] whose complement becomes a space
Autorise(c) ==
    c \in LettresAscii \cup Chiffres \cup Blancs \cup {",", ".", "/", "+", "-"}

\* faulty variant: the ends are trimmed before the special characters are replaced
SanitizeStripFirst(texte) ==
    LET sans_accents == SelectSeq(NFD(texte), LAMBDA c : c \notin MarquesDiacritiques)
        coupe        == Strip(sans_accents)
        remplace     == [i \in DOMAIN coupe |->
                            IF Autorise(coupe[i]) THEN coupe[i] ELSE " "]
    IN  CollapseSpaces(remplace)

Sanitize(texte) ==
    LET normalise    == NFD(texte)
        sans_accents == SelectSeq(normalise, LAMBDA c : c \notin MarquesDiacritiques)
        remplace     == [i \in DOMAIN sans_accents |->
                            IF Autorise(sans_accents[i]) THEN sans_accents[i] ELSE " "]
    IN  Strip(CollapseSpaces(remplace))

-----------------------------------------------------------------------------
(* Regular-expression matching shared by the rules *)

\* re.findall / re.sub scan: fin[i] is the last position of the match that
\* starts at i (0 when the pattern does not match there); the scan keeps the
\* leftmost match and resumes after its end.  The result is the sequence of
\* spans <<first, last>>.
RECURSIVE Scan(_, _, _)
Scan(fin, i, n) ==
    IF i > n THEN <<>>
    ELSE IF fin[i] > 0 THEN <<<<i, fin[i]>>>> \o Scan(fin, fin[i] + 1, n)
    ELSE Scan(fin, i + 1, n)

\* the literal lit between two \b, starting at i: its last position or 0
WordAt(s, i, lit) ==
    IF /\ HasAt(s, i, lit)
       /\ WordBoundary(s, i - 1)
       /\ WordBoundary(s, i + Len(lit) - 1)
    THEN i + Len(lit) - 1
    ELSE 0

\* re.search(r'\b' + re.escape(lit) + r'\b', s)
SearchWord(s, lit) == \E i \in 1..Len(s) : WordAt(s, i, lit) > 0

\* faulty variant: the literal is searched without the two \b
SubSpansNoBoundary(lit, s) ==
    LET S == Upper(s)
        L == Upper(lit)
    IN  Scan([i \in 1..Len(s) |->
                 IF HasAt(S, i, L) THEN i + Len(L) - 1 ELSE 0], 1, Len(s))

\* the spans re.sub(r'\b' + re.escape(lit) + r'\b', '', s, flags=re.IGNORECASE)
\* replaces
SubSpans(lit, s) ==
    LET S == Upper(s)
        L == Upper(lit)
    IN  Scan([i \in 1..Len(s) |-> WordAt(S, i, L)], 1, Len(s))

\* s without the characters of the spans
DeleteSpans(s, spans) ==
    LET garde(i) == \A j \in DOMAIN spans : i < spans[j][1] \/ i > spans[j][2]
        keep == {i \in DOMAIN s : garde(i)}
        F[i \in 0..Len(s)] ==
            IF i = 0 THEN <<>>
            ELSE IF i \in keep THEN Append(F[i - 1], s[i]) ELSE F[i - 1]
    IN  F[Len(s)]

\* re.sub(r'\b' + re.escape(lit) + r'\b', '', s, flags=re.IGNORECASE)
RemoveWord(lit, s) == DeleteSpans(s, SubSpans(lit, s))

-----------------------------------------------------------------------------
(* extraire_marque *)

marques ==
    << <<"C", "R", "F">>,
       <<"C", "A", "R", "F">>,
       <<"C", "A", "R", "R", "E", "F", "O", "U", "R">>,
       <<"P", "A", "P", "E", "R", "M", "A", "T", "E">>,
       <<"P", "M">>,
       <<"S", "H", "A", "R", "P", "I", "E">>,
       <<"R", "O", "T", "R", "I", "N", "G">> >>

\* the for loop over self.marques from index j on
RECURSIVE PremiereMarque(_, _)
PremiereMarque(texte_majuscule, j) ==
    IF j > Len(marques) THEN Aucune
    ELSE IF SearchWord(texte_majuscule, marques[j]) THEN marques[j]
    ELSE PremiereMarque(texte_majuscule, j + 1)

\* faulty variant: the brand whose occurrence comes first in the text wins
MarqueParPosition(texte) ==
    LET t == Upper(texte)
        debut(j) == {i \in 1..Len(t) : WordAt(t, i, marques[j]) > 0}
        trouvees == {j \in DOMAIN marques : debut(j) # {}}
        premier(j) == CHOOSE i \in debut(j) : \A h \in debut(j) : i <= h
    IN  IF trouvees = {} THEN Aucune
        ELSE marques[CHOOSE j \in trouvees :
                        \A h \in trouvees :
                            \/ premier(j) < premier(h)
                            \/ premier(j) = premier(h) /\ j <= h]

ExtraireMarque(texte) == PremiereMarque(Upper(texte), 1)

-----------------------------------------------------------------------------
(* extraire_grammage_volume: the six patterns *)

\* the alternation (?:KG|G|L|ML|CL), in its order
Unites == << <<"K", "G">>, <<"G">>, <<"L">>, <<"M", "L">>, <<"C", "L">> >>

ChiffresNonNuls == Chiffres \ {"0"}

Separateurs == {".", ","}

\* (?:KG|G|L|ML|CL)\b at i, alternatives from index j on: last position or 0
RECURSIVE UniteFin(_, _, _)
UniteFin(s, i, j) ==
    IF j > Len(Unites) THEN 0
    ELSE IF HasAt(s, i, Unites[j]) /\ WordBoundary(s, i + Len(Unites[j]) - 1)
         THEN i + Len(Unites[j]) - 1
         ELSE UniteFin(s, i, j + 1)

\* \s*(?:KG|G|L|ML|CL)\b at i: \s* is greedy, and giving a blank back leaves a
\* blank where the unit must start, so only the whole run of blanks can match
SuffixeFin(s, i) == UniteFin(s, SkipWhile(s, i, Blancs), 1)

\* pattern1  \b\d+[.,]\d+\s*(?:KG|G|L|ML|CL)\b  at i: last position or 0
Match1(s, i) ==
    IF ~(WordBoundary(s, i - 1) /\ s[i] \in Chiffres) THEN 0
    ELSE LET a == SkipWhile(s, i, Chiffres)
         IN  IF ~(a <= Len(s) /\ s[a] \in Separateurs) THEN 0
             ELSE LET b == SkipWhile(s, a + 1, Chiffres)
                  IN  IF b = a + 1 THEN 0 ELSE SuffixeFin(s, b)

\* pattern2  \b\d+X\d+[.,]?\d*\s*(?:KG|G|L|ML|CL)\b  at i: last position or 0
Match2(s, i) ==
    IF ~(WordBoundary(s, i - 1) /\ s[i] \in Chiffres) THEN 0
    ELSE LET a == SkipWhile(s, i, Chiffres)
         IN  IF ~(a <= Len(s) /\ s[a] = "X") THEN 0
             ELSE LET b == SkipWhile(s, a + 1, Chiffres)
                  IN  IF b = a + 1 THEN 0
                      ELSE IF b <= Len(s) /\ s[b] \in Separateurs
                           THEN LET avec == SuffixeFin(s, SkipWhile(s, b + 1, Chiffres))
                                IN  IF avec > 0 THEN avec ELSE SuffixeFin(s, b)
                           ELSE SuffixeFin(s, b)

\* pattern3  \b(?:[1-9]\d{2,}|[1-9]\d)\s*(?:KG|G|L|ML|CL)\b  at i
Match3(s, i) ==
    IF ~(WordBoundary(s, i - 1) /\ s[i] \in ChiffresNonNuls) THEN 0
    ELSE LET b == SkipWhile(s, i + 1, Chiffres)
         IN  IF b < i + 2 THEN 0 ELSE SuffixeFin(s, b)

\* pattern4  (?:^|\s)([1-9])\s*(KG|G|L|ML|CL)\b  at i: the position d of the
\* digit (0 when the pattern does not match at i); ^ is tried before \s
Match4Chiffre(s, i) ==
    IF i = 1 /\ s[1] \in ChiffresNonNuls /\ SuffixeFin(s, 2) > 0 THEN 1
    ELSE IF /\ s[i] \in Blancs
            /\ i + 1 <= Len(s)
            /\ s[i + 1] \in ChiffresNonNuls
            /\ SuffixeFin(s, i + 2) > 0
         THEN i + 1
         ELSE 0

Match4(s, i) ==
    IF Match4Chiffre(s, i) = 0 THEN 0 ELSE SuffixeFin(s, Match4Chiffre(s, i) + 1)

\* pattern5  \b\d+/\d+\s*(?:KG|G|L|ML|CL)\b  at i
Match5(s, i) ==
    IF ~(WordBoundary(s, i - 1) /\ s[i] \in Chiffres) THEN 0
    ELSE LET a == SkipWhile(s, i, Chiffres)
         IN  IF ~(a <= Len(s) /\ s[a] = "/") THEN 0
             ELSE LET b == SkipWhile(s, a + 1, Chiffres)
                  IN  IF b = a + 1 THEN 0 ELSE SuffixeFin(s, b)

\* pattern6  \b\d+/\d+\b  at i
Match6(s, i) ==
    IF ~(WordBoundary(s, i - 1) /\ s[i] \in Chiffres) THEN 0
    ELSE LET a == SkipWhile(s, i, Chiffres)
         IN  IF ~(a <= Len(s) /\ s[a] = "/") THEN 0
             ELSE LET b == SkipWhile(s, a + 1, Chiffres)
                  IN  IF b > a + 1 /\ WordBoundary(s, b - 1) THEN b - 1 ELSE 0

\* the spans of re.findall(pattern_r, s), in text order
Spans(s, r) ==
    Scan([i \in 1..Len(s) |->
            CASE r = 1 -> Match1(s, i)
              [] r = 2 -> Match2(s, i)
              [] r = 3 -> Match3(s, i)
              [] r = 4 -> Match4(s, i)
              [] r = 5 -> Match5(s, i)
              [] r = 6 -> Match6(s, i)], 1, Len(s))

\* re.sub(r'(\d+)\.(\d+)', r'\1,\2', m) from position i on
RECURSIVE PointEnVirgule(_, _)
PointEnVirgule(m, i) ==
    IF i > Len(m) THEN <<>>
    ELSE IF m[i] \notin Chiffres THEN <<m[i]>> \o PointEnVirgule(m, i + 1)
    ELSE LET a == SkipWhile(m, i, Chiffres)
             b == SkipWhile(m, a + 1, Chiffres)
         IN  IF a <= Len(m) /\ m[a] = "." /\ b > a + 1
             THEN Slice(m, i, a - 1) \o <<",">> \o Slice(m, a + 1, b - 1)
                      \o PointEnVirgule(m, b)
             ELSE Slice(m, i, a - 1) \o PointEnVirgule(m, a)

\* the token a match of rule r gives
Jeton(s, r, span) ==
    CASE r \in {1, 2} -> PointEnVirgule(Slice(s, span[1], span[2]), 1)
      [] r = 4 ->
            LET d == Match4Chiffre(s, span[1])
            IN  <<s[d]>> \o Slice(s, SkipWhile(s, d + 1, Blancs), span[2])
      [] OTHER -> Slice(s, span[1], span[2])

\* the tokens of rule r, one per match, in text order
JetonsRegle(s, r) ==
    LET sp == Spans(s, r) IN [j \in DOMAIN sp |-> Jeton(s, r, sp[j])]

\* Python's  a in b  on strings
Contient(b, a) == \E i \in 1..(Len(b) - Len(a) + 1) : HasAt(b, i, a)

\* the loop of rule 6: a bare fraction joins the list unless some token of
\* the running list contains it
RECURSIVE AjouterFractions(_, _)
AjouterFractions(liste, matches6) ==
    IF matches6 = <<>> THEN liste
    ELSE IF \E j \in DOMAIN liste : Contient(liste[j], Head(matches6))
         THEN AjouterFractions(liste, Tail(matches6))
         ELSE AjouterFractions(Append(liste, Head(matches6)), Tail(matches6))

\* grammages_volumes before the duplicates are dropped
ListeBrute(texte_majuscule) ==
    AjouterFractions(
        JetonsRegle(texte_majuscule, 1) \o JetonsRegle(texte_majuscule, 2)
            \o JetonsRegle(texte_majuscule, 3) \o JetonsRegle(texte_majuscule, 4)
            \o JetonsRegle(texte_majuscule, 5),
        JetonsRegle(texte_majuscule, 6))

\* faulty variant: the duplicates are not dropped
AvecDoublons(liste) == liste

\* the loop that builds grammages_uniques
SansDoublons(liste) ==
    LET F[n \in 0..Len(liste)] ==
            IF n = 0 THEN <<>>
            ELSE IF \E j \in DOMAIN F[n - 1] : F[n - 1][j] = liste[n]
                 THEN F[n - 1]
                 ELSE Append(F[n - 1], liste[n])
    IN  F[Len(liste)]

ExtraireGrammageVolume(texte) == SansDoublons(ListeBrute(Upper(texte)))

-----------------------------------------------------------------------------
(* traiter_libelle as a function *)

\* gv.replace(',', '.')
AvecPoint(gv) == [i \in DOMAIN gv |-> IF gv[i] = "," THEN "." ELSE gv[i]]

\* the for loop that removes the tokens from index j on
RECURSIVE SupprimerGrammages(_, _, _)
SupprimerGrammages(nom, gvs, j) ==
    IF j > Len(gvs) THEN nom
    ELSE SupprimerGrammages(
             RemoveWord(AvecPoint(gvs[j]), RemoveWord(gvs[j], nom)), gvs, j + 1)

\* ' '.join(parties)
RECURSIVE Join(_)
Join(parties) ==
    IF parties = <<>> THEN <<>>
    ELSE IF Len(parties) = 1 THEN Head(parties)
    ELSE Head(parties) \o <<" ">> \o Join(Tail(parties))

\* parties_finales
Parties(m, nom, gvs) ==
    (IF m # Aucune THEN <<m>> ELSE <<>>)
        \o (IF nom # <<>> THEN <<nom>> ELSE <<>>)
        \o gvs

\* faulty variant: the final label is joined but not upper-cased
AssemblerSansMajuscules(m, nom, gvs) == Strip(CollapseSpaces(Join(Parties(m, nom, gvs))))

\* etape 5
Assembler(m, nom, gvs) == Strip(CollapseSpaces(Upper(Join(Parties(m, nom, gvs)))))

\* etape 4, after the removals
Compacter(nom) == Strip(CollapseSpaces(nom))

TraiterLibelle(libelle_original) ==
    LET n   == Sanitize(libelle_original)
        m   == ExtraireMarque(n)
        gvs == ExtraireGrammageVolume(n)
        sm  == IF m # Aucune THEN RemoveWord(m, n) ELSE n
        nom == Compacter(SupprimerGrammages(sm, gvs, 1))
    IN  Assembler(m, nom, gvs)

-----------------------------------------------------------------------------
(* Inputs *)

\* the batch of main()
articles_exemple ==
    << <<"6", "X", "3", "0", "G", " ", "C", "H", "I", "P", "S", " ",
         "L", "I", "S", "S", "E", " ", "N", "A", "T", " ", "C", "R",
         "F", " ", "C", "L", "A", "S">>,
       <<"1", "L", " ", "P", "E", "T", " ", "P", "U", "R", " ", "J",
         "U", "S", " ", "P", "O", "M", "M", "E", " ", "C", "R", "F",
         " ", "E", "X", "T", "R", "A">>,
       <<"P", "A", "P", "E", "R", "M", "A", "T", "E", " ", "4", " ",
         "M", "a", "g", "i", "c", "+", " ", "e", "f", "f", "a", "c",
         "e", "u", "r", "s", " ", "f", "i", "n", "s", " ", "r",
         "U+00E9", "U+00E9", "c", "r">>,
       <<"D", "U+00E9", "s", "o", "d", "o", "r", "i", "s", "a", "n",
         "t", " ", "2", ".", "5", "m", "l", " ", "4", "s", "c", "e",
         "n", "t">>,
       <<"5", " ", "B", "Q", " ", "A", "L", "U", " ", "1", ",", "5",
         "L", " ", "P", "R", "O", "F", "O", "N", "D", "E">> >>

-----------------------------------------------------------------------------
(* traiter_articles and, inside its loop, traiter_libelle step by step *)

\* the state on entry of traiter_articles(lot)
Entree(lot) ==
    /\ articles = lot
    /\ idx = 0
    /\ resultats = <<>>
    /\ pc = "debut"
    /\ libelle = <<>>
    /\ nettoye = <<>>
    /\ marque = Aucune
    /\ grammages_volumes = <<>>
    /\ nom_produit = <<>>
    /\ k = 0
    /\ libelle_final = <<>>

\* if not articles: return
Debut ==
    /\ pc = "debut"
    /\ pc' = IF articles = <<>> THEN "fin" ELSE "boucle"
    /\ idx' = IF articles = <<>> THEN 0 ELSE 1
    /\ UNCHANGED <<articles, resultats, libelle, nettoye, marque,
                   grammages_volumes, nom_produit, k, libelle_final>>

\* for article in articles: article_nettoye = article.strip(); a blank one is
\* skipped, another one enters traiter_libelle
Iterer ==
    /\ pc = "boucle"
    /\ idx <= Len(articles)
    /\ LET article_nettoye == Strip(articles[idx])
       IN  IF article_nettoye = <<>>
           THEN /\ idx' = idx + 1
                /\ pc' = "boucle"
                /\ UNCHANGED libelle
           ELSE /\ libelle' = article_nettoye
                /\ pc' = "nettoyer"
                /\ UNCHANGED idx
    /\ UNCHANGED <<articles, resultats, nettoye, marque, grammages_volumes,
                   nom_produit, k, libelle_final>>

\* the loop is over: the results go to the writers
Terminer ==
    /\ pc = "boucle"
    /\ idx > Len(articles)
    /\ pc' = "fin"
    /\ UNCHANGED <<articles, idx, resultats, libelle, nettoye, marque,
                   grammages_volumes, nom_produit, k, libelle_final>>

\* etape 1
Nettoyer ==
    /\ pc = "nettoyer"
    /\ nettoye' = Sanitize(libelle)
    /\ pc' = "extraire"
    /\ UNCHANGED <<articles, idx, resultats, libelle, marque, grammages_volumes,
                   nom_produit, k, libelle_final>>

\* etapes 2 and 3, and nom_produit = nettoye
Extraire ==
    /\ pc = "extraire"
    /\ marque' = ExtraireMarque(nettoye)
    /\ grammages_volumes' = ExtraireGrammageVolume(nettoye)
    /\ nom_produit' = nettoye
    /\ pc' = "supprimer_marque"
    /\ UNCHANGED <<articles, idx, resultats, libelle, nettoye, k, libelle_final>>

\* if marque: the brand is removed from the name
SupprimerMarque ==
    /\ pc = "supprimer_marque"
    /\ nom_produit' = IF marque # Aucune THEN RemoveWord(marque, nom_produit)
                      ELSE nom_produit
    /\ k' = 1
    /\ pc' = IF grammages_volumes = <<>> THEN "assembler" ELSE "supprimer_gv"
    /\ UNCHANGED <<articles, idx, resultats, libelle, nettoye, marque,
                   grammages_volumes, libelle_final>>

\* for gv in grammages_volumes: the token as it is spelled is removed
SupprimerGV ==
    /\ pc = "supprimer_gv"
    /\ nom_produit' = RemoveWord(grammages_volumes[k], nom_produit)
    /\ pc' = "supprimer_gv_point"
    /\ UNCHANGED <<articles, idx, resultats, libelle, nettoye, marque,
                   grammages_volumes, k, libelle_final>>

\* ... and then its spelling with a point
SupprimerGVPoint ==
    /\ pc = "supprimer_gv_point"
    /\ nom_produit' = RemoveWord(AvecPoint(grammages_volumes[k]), nom_produit)
    /\ k' = k + 1
    /\ pc' = IF k < Len(grammages_volumes) THEN "supprimer_gv" ELSE "assembler"
    /\ UNCHANGED <<articles, idx, resultats, libelle, nettoye, marque,
                   grammages_volumes, libelle_final>>

\* faulty variant: the pair is put in front of the results
AssemblageEnTete ==
    /\ pc = "assembler"
    /\ nom_produit' = Compacter(nom_produit)
    /\ libelle_final' = Assembler(marque, nom_produit', grammages_volumes)
    /\ resultats' = <<<<libelle, libelle_final'>>>> \o resultats
    /\ idx' = idx + 1
    /\ pc' = "boucle"
    /\ UNCHANGED <<articles, libelle, nettoye, marque, grammages_volumes, k>>

\* the name is compacted, the label assembled and returned, and
\* traiter_articles appends the pair and moves to the next article
Assemblage ==
    /\ pc = "assembler"
    /\ nom_produit' = Compacter(nom_produit)
    /\ libelle_final' = Assembler(marque, nom_produit', grammages_volumes)
    /\ resultats' = Append(resultats, <<libelle, libelle_final'>>)
    /\ idx' = idx + 1
    /\ pc' = "boucle"
    /\ UNCHANGED <<articles, libelle, nettoye, marque, grammages_volumes, k>>

Next ==
    \/ Debut
    \/ Iterer
    \/ Terminer
    \/ Nettoyer
    \/ Extraire
    \/ SupprimerMarque
    \/ SupprimerGV
    \/ SupprimerGVPoint
    \/ Assemblage

-----------------------------------------------------------------------------
(* Specifications: the same program on four families of batches *)

\* the longest label of SpecNettoyage, in characters
MaxCaracteres == 4

\* the longest label of SpecMarque and SpecGrammage, in fragments
MaxFragments == 3

\* the longest batch of SpecLot
MaxArticles == 3

\* every label made of at most n fragments
Libelles(fragments, n) ==
    UNION {{Flatten(f) : f \in [1..m -> fragments]} : m \in 0..n}

\* every batch of at most n labels
Lots(libelles, n) == UNION {[1..m -> libelles] : m \in 0..n}

\* the batches of one label, the empty batch and the batch of main()
UnParUn(libelles) == {<<l>> : l \in libelles} \cup {<<>>, articles_exemple}

\* accents, special characters, blanks
CaracteresNettoyage == {"a", "X", "1", ",", " ", "TAB", "@", "U+00E9", "U+0301"}

\* brands, in both cases, alone and next to other characters ("_" is a word
\* character that the sanitization turns into a space)
FragmentsMarque ==
    { <<"C", "R", "F">>, <<"P", "M">>, <<"C", "A", "R", "F">>,
      <<"c", "r", "f">>, <<"p", "m">>, <<" ">>, <<"-">>, <<"_">>, <<"A">>,
      <<"1">>,
      <<"C", "A", "R", "R", "E", "F", "O", "U", "R">> }

\* digits, separators, units, whole quantities, a brand, words
FragmentsGrammage ==
    { <<"1">>, <<"2", "5">>, <<"L">>, <<".">>, <<",">>, <<"/">>, <<"X">>,
      <<" ">>, <<"1", "L">>, <<"k", "g">>, <<"2", "5", "L">>,
      <<"1", ".", "2", "5", "L">>, <<"2", "X", "1">>, <<"C", "R", "F">>,
      <<" ", "a", " ">>, <<"a", "1", "L">> }

\* the labels of a batch: blank ones, padded ones, plain ones
LibellesLot ==
    { <<>>, <<" ">>, <<" ", "a">>, <<"b", " ">>,
      <<"C", "R", "F", " ", "1", "L">>, <<"1", ".", "5", "l">> }

InitNettoyage ==
    \E lot \in UnParUn(Libelles({<<c>> : c \in CaracteresNettoyage}, MaxCaracteres)) :
        Entree(lot)

InitMarque ==
    \E lot \in UnParUn(Libelles(FragmentsMarque, MaxFragments)) : Entree(lot)

InitGrammage ==
    \E lot \in UnParUn(Libelles(FragmentsGrammage, MaxFragments)) : Entree(lot)

InitLot ==
    \E lot \in Lots(LibellesLot, MaxArticles) \cup {articles_exemple} : Entree(lot)

SpecNettoyage == InitNettoyage /\ [][Next]_vars

SpecMarque == InitMarque /\ [][Next]_vars

SpecGrammage == InitGrammage /\ [][Next]_vars

SpecLot == InitLot /\ [][Next]_vars

Spec == SpecGrammage

-----------------------------------------------------------------------------
(* Properties *)

\* etapes 2 and 3 are just done: marque and grammages_volumes are those of
\* nettoye
Extrait == pc = "supprimer_marque"

\* traiter_libelle has returned for the article in libelle
Retourne == pc = "boucle" /\ resultats # <<>>

\* the letters and the digits
Alphanumeriques == LettresAscii \cup Chiffres \cup LettresAutres

Alphanumerique(c) == c \in Alphanumeriques

\* s[a..b] has a non-alphanumeric character or a string edge on both sides
Delimite(s, a, b) ==
    /\ a = 1 \/ ~Alphanumerique(s[a - 1])
    /\ b = Len(s) \/ ~Alphanumerique(s[b + 1])

\* lit occurs in s at position i, whatever the case
OccurrenceEn(s, i, lit) == HasAt(Upper(s), i, Upper(lit))

\* C1: sanitization is idempotent: sanitizing the sanitized text, and
\* sanitizing twice any article of the batch, changes nothing.
C1_NettoyageIdempotent ==
    /\ Sanitize(nettoye) = nettoye
    /\ \A i \in DOMAIN articles :
          Sanitize(Sanitize(articles[i])) = Sanitize(articles[i])

\* C1 witness: a label with an accented letter and a special character has
\* been sanitized into a different, non-empty text.
C1_Witness ==
    /\ pc = "extraire"
    /\ nettoye # <<>>
    /\ nettoye # libelle
    /\ \E i \in DOMAIN libelle : libelle[i] = "U+00E9"
    /\ \E i \in DOMAIN libelle : libelle[i] = "@"

\* the rank of the first discovery of token x, J[r] being the matches of
\* rule r in text order: rules in the order 1 to 6, then text order
Rang(J, x) ==
    LET R == {p \in (1..6) \X (1..Len(J[6]) + Len(J[1]) + Len(J[2]) + Len(J[3])
                                     + Len(J[4]) + Len(J[5])) :
                 p[2] <= Len(J[p[1]]) /\ J[p[1]][p[2]] = x}
        m == CHOOSE p \in R : \A q \in R : p[1] < q[1] \/ (p[1] = q[1] /\ p[2] <= q[2])
    IN  <<m[1], m[2]>>

Avant(p, q) == p[1] < q[1] \/ (p[1] = q[1] /\ p[2] < q[2])

\* C2: the quantity list has no two equal tokens, every token is a match of
\* one of the six rules, every match of rules 1 to 5 is in the list, and the
\* tokens stand in the order of their first discovery, rule 1 to rule 6.
C2_UniquesEtOrdonnes ==
    Extrait =>
        LET t  == Upper(nettoye)
            gv == grammages_volumes
            J  == [r \in 1..6 |-> JetonsRegle(t, r)]
        IN  /\ \A i, j \in DOMAIN gv : i < j => gv[i] # gv[j]
            /\ \A i \in DOMAIN gv :
                  \E r \in 1..6 : \E j \in DOMAIN J[r] : J[r][j] = gv[i]
            /\ \A r \in 1..5 : \A j \in DOMAIN J[r] :
                  \E i \in DOMAIN gv : gv[i] = J[r][j]
            /\ \A i, j \in DOMAIN gv :
                  i < j => Avant(Rang(J, gv[i]), Rang(J, gv[j]))

\* C2 witness: a token matched twice was kept once, and the list starts with
\* a rule 1 token although a rule 3 match comes first in the text.
C2_Witness ==
    /\ Extrait
    /\ Len(grammages_volumes) >= 2
    /\ Len(ListeBrute(Upper(nettoye))) > Len(grammages_volumes)
    /\ Spans(Upper(nettoye), 1) # <<>>
    /\ Spans(Upper(nettoye), 3) # <<>>
    /\ Spans(Upper(nettoye), 3)[1][1] < Spans(Upper(nettoye), 1)[1][1]
    /\ grammages_volumes[1] = JetonsRegle(Upper(nettoye), 1)[1]

\* C3: no returned quantity token contains the character '.'.
C3_PasDePoint ==
    Extrait =>
        \A j \in DOMAIN grammages_volumes :
            \A i \in DOMAIN grammages_volumes[j] : grammages_volumes[j][i] # "."

\* C4: the brand is the first one of the configured list that occurs as a
\* whole word, whatever the case, in the text; None exactly when none does.
EstMotEntier(s, lit) ==
    \E i \in 1..Len(s) :
        OccurrenceEn(s, i, lit) /\ Delimite(s, i, i + Len(lit) - 1)

C4_PremiereMarqueDeLaListe ==
    Extrait =>
        LET presentes == {j \in DOMAIN marques : EstMotEntier(nettoye, marques[j])}
        IN  IF presentes = {} THEN marque = Aucune
            ELSE marque = marques[CHOOSE j \in presentes : \A h \in presentes : j <= h]

\* C4 witness: the brand found is listed before another brand that occurs as
\* a whole word earlier in the text.
C4_Witness ==
    /\ Extrait
    /\ marque # Aucune
    /\ \E j, h \in DOMAIN marques :
          /\ marques[j] = marque
          /\ j < h
          /\ \E ph \in 1..Len(nettoye) :
                /\ OccurrenceEn(nettoye, ph, marques[h])
                /\ Delimite(nettoye, ph, ph + Len(marques[h]) - 1)
                /\ \A pj \in 1..Len(nettoye) :
                      OccurrenceEn(nettoye, pj, marque) => ph < pj

\* the maximal runs of letters and digits of s from position i on
RECURSIVE MotsDepuis(_, _)
MotsDepuis(s, i) ==
    IF i > Len(s) THEN <<>>
    ELSE IF ~Alphanumerique(s[i]) THEN MotsDepuis(s, i + 1)
    ELSE LET f == SkipWhile(s, i, Alphanumeriques)
         IN  <<Slice(s, i, f - 1)>> \o MotsDepuis(s, f)

Mots(s) == MotsDepuis(s, 1)

\* a is b with some elements left out
RECURSIVE SousSuite(_, _)
SousSuite(a, b) ==
    IF a = <<>> THEN TRUE
    ELSE IF b = <<>> THEN FALSE
    ELSE IF Head(a) = Head(b) THEN SousSuite(Tail(a), Tail(b))
    ELSE SousSuite(a, Tail(b))

\* the literal the removal step at pc is about to remove
LitteralSupprime ==
    CASE pc = "supprimer_marque" -> marque
      [] pc = "supprimer_gv" -> grammages_volumes[k]
      [] pc = "supprimer_gv_point" -> AvecPoint(grammages_volumes[k])

Suppression ==
    \/ pc = "supprimer_marque" /\ marque # Aucune
    \/ pc \in {"supprimer_gv", "supprimer_gv_point"}

\* C5: every removal of the brand or of a quantity token from the name
\* deletes only occurrences that have a non-alphanumeric character or a
\* string edge on both sides, so that every run of letters and digits of the
\* name is either deleted whole or left as it was.
C5_SuppressionMotEntier ==
    [][Suppression =>
          LET sp == SubSpans(LitteralSupprime, nom_produit)
          IN  /\ nom_produit' = DeleteSpans(nom_produit, sp)
              /\ \A j \in DOMAIN sp : Delimite(nom_produit, sp[j][1], sp[j][2])
              /\ SousSuite(Mots(nom_produit'), Mots(nom_produit))]_vars

\* C5 witness: the first token has been removed from the name of a label
\* without brand, and an occurrence of it inside a longer run of letters and
\* digits is still there.
C5_Witness ==
    /\ pc = "supprimer_gv_point"
    /\ k = 1
    /\ marque = Aucune
    /\ nom_produit # nettoye
    /\ \E i \in 1..Len(nom_produit) :
          /\ OccurrenceEn(nom_produit, i, grammages_volumes[1])
          /\ ~Delimite(nom_produit, i, i + Len(grammages_volumes[1]) - 1)

\* the brand if any, the name if not empty, the tokens: joined by one space
\* and upper-cased
LibelleAttendu ==
    LET parties == (IF marque # Aucune THEN <<marque>> ELSE <<>>)
                       \o (IF nom_produit # <<>> THEN <<nom_produit>> ELSE <<>>)
                       \o grammages_volumes
        F[n \in 0..Len(parties)] ==
            IF n = 0 THEN <<>>
            ELSE IF n = 1 THEN parties[1]
            ELSE F[n - 1] \o <<" ">> \o parties[n]
    IN  Upper(F[Len(parties)])

\* C6: the returned label is the upper-cased join, by single spaces, of the
\* brand (if found), the product name (if not empty) and the quantity tokens
\* in extraction order; it has no lowercase letter, no space at either end
\* and no two spaces in a row.
C6_Assemblage ==
    Retourne =>
        /\ libelle_final = LibelleAttendu
        /\ resultats[Len(resultats)] = <<libelle, libelle_final>>
        /\ \A i \in DOMAIN libelle_final : libelle_final[i] \notin LettresMin
        /\ libelle_final # <<>> =>
              /\ libelle_final[1] # " "
              /\ libelle_final[Len(libelle_final)] # " "
        /\ \A i \in 1..(Len(libelle_final) - 1) :
              ~(libelle_final[i] = " " /\ libelle_final[i + 1] = " ")

\* C6 witness: a label written with lowercase letters has been returned with
\* a brand, a name and a quantity.
C6_Witness ==
    /\ Retourne
    /\ marque # Aucune
    /\ nom_produit # <<>>
    /\ grammages_volumes # <<>>
    /\ libelle # Upper(libelle)

\* C7 as stated: one pair per input label, in input order, the label itself
\* first and its normalized form second.
C7_UnePaireParLibelle ==
    pc = "fin" =>
        /\ Len(resultats) = Len(articles)
        /\ \A i \in DOMAIN articles :
              /\ i \in DOMAIN resultats
              /\ resultats[i] = <<articles[i], TraiterLibelle(articles[i])>>

\* C7 amended: the results hold, in input order, one pair for each input
\* label that is not blank: the label stripped of the whitespace at its ends,
\* and traiter_libelle of that stripped label.
C7_UnePaireParLibelleNonVide ==
    pc = "fin" =>
        LET coupes == [i \in DOMAIN articles |-> Strip(articles[i])]
            gardes == SelectSeq(coupes, LAMBDA l : l # <<>>)
        IN  resultats = [i \in DOMAIN gardes |-> <<gardes[i], TraiterLibelle(gardes[i])>>]

\* C7 witness: a finished batch with a blank label, a padded label, and at
\* least two pairs.
C7_Witness ==
    /\ pc = "fin"
    /\ Len(resultats) >= 2
    /\ \E i \in DOMAIN articles : Strip(articles[i]) = <<>>
    /\ \E i \in DOMAIN articles : Strip(articles[i]) \notin {<<>>, articles[i]}
    /\ resultats[1][2] # resultats[2][2]

\* C8: extracting the quantities again from the reduced product name gives
\* none of the label's own quantity tokens.
C8_NomSansGrammage ==
    Retourne =>
        LET restants == ExtraireGrammageVolume(nom_produit)
        IN  \A i \in DOMAIN restants : \A j \in DOMAIN grammages_volumes :
                restants[i] # grammages_volumes[j]

\* C9: normalizing a normalized label changes nothing.
C9_PipelineIdempotent ==
    Retourne => TraiterLibelle(libelle_final) = libelle_final

\* C10: no match of rule 3 lies inside the span of a match of rule 1.
C10_Regle3HorsRegle1 ==
    Extrait =>
        LET t == Upper(nettoye)
        IN  \A i \in DOMAIN Spans(t, 1) : \A j \in DOMAIN Spans(t, 3) :
                ~(/\ Spans(t, 1)[i][1] <= Spans(t, 3)[j][1]
                  /\ Spans(t, 3)[j][2] <= Spans(t, 1)[i][2])

=============================================================================
